---------------------------- MODULE Spec2Model ----------------------------
(* Model of the React + Redux counter demo: the store built in            *)
(* src/store/store.js from rootReducer and the middleware list            *)
(* [loggerMiddleware, asyncMiddleware], the commands of                   *)
(* src/actions/counterActions.js, and the store's subscribers.            *)
(*                                                                        *)
(* A dispatch is a call: it is modelled as a frame on a call stack, and   *)
(* only the top frame runs (JavaScript is single threaded and every       *)
(* function here runs to completion).  A frame walks the middleware       *)
(* chain inwards, reaches the store's own dispatch (reducer, then the     *)
(* listeners), and walks the chain outwards again.                        *)
EXTENDS Integers, Sequences, FiniteSets, TLC

(* ------------------------------ bounds ------------------------------- *)
\* total number of dispatch calls in one behaviour
MaxDispatches == 2
\* number of dispatch calls that may be nested in one another
MaxDepth == 2
\* number of distinct component callbacks
MaxSubs == 2
\* number of subscribe/unsubscribe calls made from inside callbacks
MaxEdits == 1

(* --------------------------- JavaScript values ------------------------ *)
\* A dispatched value is either a plain object {type: t} or a function.
PlainTypes == {"INCREMENT", "DECREMENT", "RESET", "INCREMENT_ASYNC", "ADD-TWO"}

PlainAction(t) == [tag |-> "object", val |-> t]

FunctionAction(f) == [tag |-> "function", val |-> f]

PlainActions == {PlainAction(t) : t \in PlainTypes}

\* incrementAsyncThunk(): reads the state and schedules dispatch(increment()).
\* asyncAction: dispatches a plain command while it runs.
\* idleThunk: a procedure that never dispatches.
ProcNames == {"incrementAsyncThunk", "asyncAction", "idleThunk"}

\* the plain command a synchronously dispatching procedure dispatches
SyncCommand == PlainAction("INCREMENT_ASYNC")

\* A timer callback that dispatches incrementAsync() instead.
incrementAsync == PlainAction("INCREMENT_ASYNC")

increment == PlainAction("INCREMENT")

Undefined == [tag |-> "undefined", val |-> "undefined"]

(* ------------------------------ reducers ------------------------------ *)
counterInitialState == [count |-> 0, loading |-> FALSE, lastAction |-> "null"]

\* A counter reducer that knows INCREMENT only.
counterReducerIncrementOnly(state, action) ==
  IF action.val = "INCREMENT"
  THEN [state EXCEPT !.count = state.count + 1, !.lastAction = "INCREMENT"]
  ELSE state

\* A counter reducer whose RESET returns the initial state.
counterReducerResetAll(state, action) ==
  CASE action.val = "INCREMENT" ->
         [state EXCEPT !.count = state.count + 1, !.lastAction = "INCREMENT"]
    [] action.val = "DECREMENT" ->
         [state EXCEPT !.count = state.count - 1, !.lastAction = "DECREMENT"]
    [] action.val = "RESET" ->
         [counterInitialState EXCEPT !.lastAction = "RESET"]
    [] action.val = "INCREMENT_ASYNC" ->
         [state EXCEPT !.loading = TRUE, !.lastAction = "INCREMENT_ASYNC_START"]
    [] OTHER -> state

counterReducer(state, action) ==
  CASE action.val = "INCREMENT" ->
         [state EXCEPT !.count = state.count + 1, !.lastAction = "INCREMENT"]
    [] action.val = "DECREMENT" ->
         [state EXCEPT !.count = state.count - 1, !.lastAction = "DECREMENT"]
    [] action.val = "RESET" ->
         [state EXCEPT !.count = 0, !.lastAction = "RESET"]
    [] action.val = "INCREMENT_ASYNC" ->
         [state EXCEPT !.loading = TRUE, !.lastAction = "INCREMENT_ASYNC_START"]
    [] OTHER -> state

addInitialState == [count |-> 0]

\* A switch on the action's type instead of on the action.
StrictEqualsType(v, s) == v.val = s

\* switch (type) compares with ===; a value that is not a string never
\* equals a string literal.
StrictEqualsString(v, s) == v.tag = "string" /\ v.val = s

\* The second parameter is named `type` but receives the whole action.
addReducer(state, type) ==
  CASE StrictEqualsString(type, "ADD-TWO") -> [state EXCEPT !.count = state.count + 2]
    [] StrictEqualsString(type, "ADD-FOUR") -> [state EXCEPT !.count = state.count + 4]
    [] OTHER -> state

\* combineReducers({counter, add})
rootReducer(state, action) ==
  [counter |-> counterReducer(state.counter, action),
   add     |-> addReducer(state.add, action)]

\* createStore dispatches an init action of a type no reducer knows; each
\* slice reducer is called with an undefined state and takes its default.
InitialState == [counter |-> counterInitialState, add |-> addInitialState]

(* --------------------------- middleware chain ------------------------- *)
\* applyMiddleware(loggerMiddleware, asyncMiddleware)
Middlewares == <<"loggerMiddleware", "asyncMiddleware">>

\* A composition that wraps in the opposite order: g(f(next)).
ComposeOrderReversed(ms) == [i \in 1..Len(ms) |-> ms[Len(ms) + 1 - i]]

\* The chain, outermost link first: compose(f, g)(next) = f(g(next)).
ComposeOrder(ms) == ms

Chain == ComposeOrder(Middlewares)

N == Len(Chain)

\* A test that never recognises a procedure.
IsFunctionNever(action) == FALSE

\* typeof action === 'function'
IsFunction(action) == action.tag = "function"


(* -------------------------------- state ------------------------------- *)
VARIABLES
  state,          \* the store's currentState
  nextListeners,  \* the store's listener list, in registration order
  isDispatching,  \* the store's flag: the reducer is executing
  timers,         \* pending setTimeout callbacks of incrementAsyncThunk
  stack,          \* the dispatch calls in progress, innermost last
  ndisp,          \* history: dispatch calls made so far
  nedits,         \* history: listener list edits made from inside callbacks
  folded,         \* history: rootReducer folded over the commands that
                  \*   reached the store's own dispatch, in order
  owed,           \* history: reducer executions minus completed passes
  error,          \* history: "none", or the error the store's dispatch threw
  hist,           \* history of the application's clicks (AppSpec)
  probe           \* the inputs and results of the function under test
                  \*   (ReducerSpec, IOSpec)

\* the variables the store's own actions leave alone
aux == <<hist, probe>>

vars == <<state, nextListeners, isDispatching, timers, stack, ndisp, nedits,
          folded, owed, error, aux>>

Top == stack[Len(stack)]

\* A store that hands out the state it had when the running dispatch began.
getStateStale == IF stack # <<>> THEN Top.before ELSE state

\* store.getState()
getState == state

\* The callback subscribed in src/store/store.js; its unsubscribe handle is
\* discarded, so it stays registered.
StoreListener == 1

\* Callbacks subscribed by components (connect, useSelector, Provider).
ComponentListeners == 2..(MaxSubs + 1)

Commands == PlainActions \cup {FunctionAction(f) : f \in ProcNames}

\* dispatch calls a command causes before its own dispatch returns
Cost(a) == IF a = FunctionAction("asyncAction") THEN 2 ELSE 1

CanDispatch(a) ==
  /\ ndisp + Cost(a) <= MaxDispatches
  /\ Len(stack) + Cost(a) <= MaxDepth

\* The frame of a call dispatch(a).  layer is the position in the chain
\* (N + 1 is the store's own dispatch, 0 is back at the caller).
NewFrame(a, who) ==
  [action |-> a, caller |-> who, layer |-> 1, pc |-> "in", log |-> <<>>,
   before |-> state, post |-> state, listeners |-> <<>>, idx |-> 0,
   called |-> <<>>, fresh |-> TRUE, nested |-> FALSE, result |-> Undefined,
   seen |-> <<>>, threw |-> FALSE]

\* A procedure handed the store's own dispatch, which bypasses the chain.
ProcedureDispatchRaw(chainEntry, storeEntry) == storeEntry

\* action(store.dispatch, store.getState): the dispatch a procedure holds is
\* the middleware API's, which enters the chain at its first middleware.
ProcedureDispatch(chainEntry, storeEntry) == chainEntry

\* the frame of a dispatch made by a procedure, at once or from its timer
ProcedureFrame(a, who) ==
  [NewFrame(a, who) EXCEPT !.layer = ProcedureDispatch(1, N + 1)]

SetTop(f) == [stack EXCEPT ![Len(stack)] = f]

Remove(seq, x) == SelectSeq(seq, LAMBDA y : y # x)

InSeq(seq, x) == \E i \in 1..Len(seq) : seq[i] = x

\* nothing clicked yet: the net count of INCREMENT minus DECREMENT since the
\* last RESET, the thunks dispatched, the other commands dispatched, the
\* timers that have fired, the RESETs dispatched while a timer was pending
NoHistory == [net |-> 0, thunks |-> 0, others |-> 0, fired |-> 0,
              between |-> 0]

NoProbe == [k |-> "none"]

Init ==
  /\ state = InitialState
  /\ nextListeners = <<StoreListener>>
  /\ isDispatching = FALSE
  /\ timers = 0
  /\ stack = <<>>
  /\ ndisp = 0
  /\ nedits = 0
  /\ folded = InitialState
  /\ owed = 0
  /\ error = "none"
  /\ hist = NoHistory
  /\ probe = NoProbe

(* ------------------------- calls from outside ------------------------- *)
\* A caller (a button of Counter, any code holding the store) dispatches.
Dispatch(a) ==
  /\ stack = <<>>
  /\ CanDispatch(a)
  /\ stack' = <<NewFrame(a, "caller")>>
  /\ ndisp' = ndisp + 1
  /\ UNCHANGED <<state, nextListeners, isDispatching, timers, nedits, folded,
                 owed, error, aux>>

\* The timer of incrementAsyncThunk fires: dispatch(increment()).
TimerFire ==
  /\ stack = <<>>
  /\ timers > 0
  /\ CanDispatch(increment)
  /\ timers' = timers - 1
  /\ stack' = <<ProcedureFrame(increment, "timer")>>
  /\ ndisp' = ndisp + 1
  /\ UNCHANGED <<state, nextListeners, isDispatching, nedits, folded, owed,
                 error, aux>>

\* store.subscribe(listener) outside a dispatch
Subscribe(k) ==
  /\ stack = <<>>
  /\ ~InSeq(nextListeners, k)
  /\ nextListeners' = Append(nextListeners, k)
  /\ UNCHANGED <<state, isDispatching, timers, stack, ndisp, nedits, folded,
                 owed, error, aux>>

\* the unsubscribe function returned by subscribe, outside a dispatch
Unsubscribe(k) ==
  /\ stack = <<>>
  /\ InSeq(nextListeners, k)
  /\ nextListeners' = Remove(nextListeners, k)
  /\ UNCHANGED <<state, isDispatching, timers, stack, ndisp, nedits, folded,
                 owed, error, aux>>

(* --------------------------- the middlewares -------------------------- *)
\* loggerMiddleware up to its call of next(action)
LoggerIn ==
  /\ stack # <<>>
  /\ Top.pc = "in" /\ Top.layer <= N
  /\ Chain[Top.layer] = "loggerMiddleware"
  /\ stack' = SetTop([Top EXCEPT !.log = Append(@, "loggerMiddleware:in"),
                                 !.seen = Append(@, getState),
                                 !.layer = @ + 1])
  /\ UNCHANGED <<state, nextListeners, isDispatching, timers, ndisp, nedits,
                 folded, owed, error, aux>>

\* asyncMiddleware with a plain command: return next(action)
AsyncForward ==
  /\ stack # <<>>
  /\ Top.pc = "in" /\ Top.layer <= N
  /\ Chain[Top.layer] = "asyncMiddleware"
  /\ ~IsFunction(Top.action)
  /\ stack' = SetTop([Top EXCEPT !.log = Append(@, "asyncMiddleware:in"),
                                 !.layer = @ + 1])
  /\ UNCHANGED <<state, nextListeners, isDispatching, timers, ndisp, nedits,
                 folded, owed, error, aux>>

\* A thunk whose setTimeout is never armed.
ScheduleTimerLost(pending) == pending

\* setTimeout(() => { dispatch(increment()); }, 1000): one more pending timer
ScheduleTimer(pending) == pending + 1

\* asyncMiddleware with a function: return action(store.dispatch, store.getState)
\* The procedure runs here, up to the dispatch it makes or to its return.
AsyncInvoke ==
  /\ stack # <<>>
  /\ Top.pc = "in" /\ Top.layer <= N
  /\ Chain[Top.layer] = "asyncMiddleware"
  /\ IsFunction(Top.action)
  /\ LET f == [Top EXCEPT !.log = Append(@, "asyncMiddleware:in"), !.pc = "out"]
     IN  CASE Top.action.val = "incrementAsyncThunk" ->
                /\ timers' = ScheduleTimer(timers)
                /\ stack' = SetTop(f)
                /\ ndisp' = ndisp
           [] Top.action.val = "asyncAction" ->
                /\ timers' = timers
                /\ stack' = Append(SetTop([f EXCEPT !.nested = TRUE]),
                                   ProcedureFrame(SyncCommand, "procedure"))
                /\ ndisp' = ndisp + 1
           [] OTHER ->
                /\ timers' = timers
                /\ stack' = SetTop(f)
                /\ ndisp' = ndisp
  /\ UNCHANGED <<state, nextListeners, isDispatching, nedits, folded, owed,
                 error, aux>>

\* A logger that forgets to return what next(action) returned.
PassResultDropped(mw, r) == IF mw = "loggerMiddleware" THEN Undefined ELSE r

\* loggerMiddleware: const result = next(action); ...; return result
\* asyncMiddleware: return next(action) / return action(dispatch, getState)
PassResult(mw, r) == r

\* A logger that prints as the after-state the state it read on entry.
LoggerReadsEntry(current, entry) == entry

\* console.log('After State', store.getState()) after next(action) returned
LoggerReads(current, entry) == current

\* what the middleware mw has read of the state when it returns
SeenAtOut(mw, seen) ==
  IF mw = "loggerMiddleware"
  THEN Append(seen, LoggerReads(getState, seen[1]))
  ELSE seen

\* a middleware returns the result of next(action) to its caller
MiddlewareOut ==
  /\ stack # <<>>
  /\ Top.pc = "out" /\ Top.layer \in 1..N
  /\ stack' = SetTop([Top EXCEPT !.log = Append(@, Chain[Top.layer] \o ":out"),
                                 !.result = PassResult(Chain[Top.layer], @),
                                 !.seen = SeenAtOut(Chain[Top.layer], @),
                                 !.layer = @ - 1])
  /\ UNCHANGED <<state, nextListeners, isDispatching, timers, ndisp, nedits,
                 folded, owed, error, aux>>

\* dispatch returns to its caller
Return ==
  /\ stack # <<>>
  /\ Top.pc = "out" /\ Top.layer = 0
  /\ stack' = SubSeq(stack, 1, Len(stack) - 1)
  /\ UNCHANGED <<state, nextListeners, isDispatching, timers, ndisp, nedits,
                 folded, owed, error, aux>>

(* ----------------------- the store's own dispatch --------------------- *)
(* src/store/store.js builds the store with redux's createStore.  Its      *)
(* dispatch: refuse a value that is not a plain object; refuse when         *)
(* isDispatching; set isDispatching, run the reducer, store its result and  *)
(* clear isDispatching (try/finally); take the listener list; call each     *)
(* listener of that list in order; return the action.  subscribe and the    *)
(* unsubscribe it returns edit nextListeners, never the list a running      *)
(* pass walks.  The dispatch handed to the middlewares and to procedures    *)
(* is the whole chain (applyMiddleware).                                    *)
\* isPlainObject(action): otherwise dispatch throws
IsPlainObject(action) == action.tag = "object"

\* A guard that refuses every dispatch made while another is in progress.
DispatchAllowedOutermost(flag, d) == ~flag /\ d = 0

\* if (isDispatching) throw new Error('Reducers may not dispatch actions.')
\* The flag is the only thing the store looks at: dispatch calls already in
\* progress further out (d of them) do not make it refuse.
DispatchAllowed(flag, d) == ~flag

\* The checks at the head of dispatch, then isDispatching = true.  A throw
\* unwinds the chain; the repository's reducers never dispatch and the
\* commands here are plain once past asyncMiddleware, so it does not occur.
ReducerEnter ==
  /\ stack # <<>>
  /\ Top.pc = "in" /\ Top.layer = N + 1
  /\ IF IsPlainObject(Top.action) /\ DispatchAllowed(isDispatching, Len(stack) - 1)
     THEN /\ isDispatching' = TRUE
          /\ stack' = SetTop([Top EXCEPT !.log = Append(@, "dispatch"),
                                         !.pc = "reducing"])
          /\ folded' = rootReducer(folded, Top.action)
          /\ error' = error
     ELSE /\ isDispatching' = isDispatching
          /\ stack' = SetTop([Top EXCEPT !.pc = "out", !.layer = N])
          /\ folded' = folded
          /\ error' = IF IsPlainObject(Top.action) THEN "ReducersMayNotDispatch"
                                                   ELSE "NotPlainObject"
  /\ UNCHANGED <<state, nextListeners, timers, ndisp, nedits, owed, aux>>

\* A store whose reducer leaves every state as it is.
currentReducerIdentity(prev, action) == prev

\* createStore(rootReducer, ...): the store's currentReducer
currentReducer(prev, action) == rootReducer(prev, action)

\* A store that skips the listeners when the state did not change.
ShouldNotifyOnChange(prev, next) == prev # next

\* dispatch notifies after every reducer execution, whatever the reducer
\* returned.
ShouldNotify(prev, next) == TRUE

\* currentState = currentReducer(currentState, action), isDispatching = false
\* (try/finally), then listeners = currentListeners = nextListeners.
ReducerReturn ==
  /\ stack # <<>>
  /\ Top.pc = "reducing"
  /\ LET next == currentReducer(state, Top.action)
     IN  /\ state' = next
         /\ stack' = SetTop(
              IF ShouldNotify(state, next)
              THEN [Top EXCEPT !.post = next, !.listeners = nextListeners,
                               !.idx = 1, !.pc = "notifying",
                               !.result = Top.action]
              ELSE [Top EXCEPT !.post = next, !.pc = "out", !.layer = N,
                               !.result = Top.action])
  /\ isDispatching' = FALSE
  /\ owed' = owed + 1
  /\ UNCHANGED <<nextListeners, timers, ndisp, nedits, folded, error, aux>>

\* A pass that walks the store's live list.
PassListenersLive(snapshot, live) == live

\* The list a notification pass walks: the local `listeners` taken when the
\* pass started, not the store's live list.
PassListeners(snapshot, live) == snapshot

Walked == PassListeners(Top.listeners, nextListeners)

Notifying ==
  /\ stack # <<>>
  /\ Top.pc = "notifying"
  /\ Top.idx <= Len(Walked)

\* The frame after listener number idx was called; every callback of the
\* repository reads store.getState().
Called ==
  [Top EXCEPT !.called = Append(@, Walked[Top.idx]),
              !.fresh = @ /\ getState = Top.post,
              !.idx = @ + 1]

\* a callback that only reads the state (store.js, connect, useSelector)
ListenerReads ==
  /\ Notifying
  /\ stack' = SetTop(Called)
  /\ UNCHANGED <<state, nextListeners, isDispatching, timers, ndisp, nedits,
                 folded, owed, error, aux>>

\* a component callback whose update unmounts component k (k may be itself)
ListenerUnsubscribes(k) ==
  /\ Notifying
  /\ nedits < MaxEdits
  /\ nedits' = nedits + 1
  /\ Walked[Top.idx] \in ComponentListeners
  /\ InSeq(nextListeners, k)
  /\ nextListeners' = Remove(nextListeners, k)
  /\ stack' = SetTop(Called)
  /\ UNCHANGED <<state, isDispatching, timers, ndisp, folded, owed,
                 error, aux>>

\* a component callback whose update mounts component k
ListenerSubscribes(k) ==
  /\ Notifying
  /\ nedits < MaxEdits
  /\ nedits' = nedits + 1
  /\ Walked[Top.idx] \in ComponentListeners
  /\ ~InSeq(nextListeners, k)
  /\ nextListeners' = Append(nextListeners, k)
  /\ stack' = SetTop(Called)
  /\ UNCHANGED <<state, isDispatching, timers, ndisp, folded, owed,
                 error, aux>>

\* a component callback that dispatches
ListenerDispatches(a) ==
  /\ Notifying
  /\ Walked[Top.idx] \in ComponentListeners
  /\ CanDispatch(a)
  /\ stack' = Append(SetTop([Called EXCEPT !.nested = TRUE]),
                     NewFrame(a, "listener"))
  /\ ndisp' = ndisp + 1
  /\ UNCHANGED <<state, nextListeners, isDispatching, timers, nedits, folded,
                 owed, error, aux>>

\* the pass is over: return action
NotifyDone ==
  /\ stack # <<>>
  /\ Top.pc = "notifying"
  /\ Top.idx > Len(Walked)
  /\ stack' = SetTop([Top EXCEPT !.pc = "out", !.layer = N])
  /\ owed' = owed - 1
  /\ UNCHANGED <<state, nextListeners, isDispatching, timers, ndisp, nedits,
                 folded, error, aux>>

(* ---------------------------- specification --------------------------- *)
Next ==
  \/ \E a \in Commands : Dispatch(a)
  \/ TimerFire
  \/ \E k \in ComponentListeners : Subscribe(k)
  \/ \E k \in ComponentListeners : Unsubscribe(k)
  \/ LoggerIn
  \/ AsyncForward
  \/ AsyncInvoke
  \/ ReducerEnter
  \/ ReducerReturn
  \/ ListenerReads
  \/ \E k \in ComponentListeners : ListenerUnsubscribes(k)
  \/ \E k \in ComponentListeners : ListenerSubscribes(k)
  \/ \E a \in Commands : ListenerDispatches(a)
  \/ NotifyDone
  \/ MiddlewareOut
  \/ Return

Spec == Init /\ [][Next]_vars

(* ------------------------ callbacks that throw ------------------------ *)
(* The store's pass is a plain loop over the listeners with no try/catch,  *)
(* and neither middleware catches: an error thrown by a callback leaves the *)
(* loop, the store's dispatch, asyncMiddleware and loggerMiddleware, and    *)
(* reaches whoever called dispatch.                                         *)
\* A store that catches what a callback throws and goes on with the pass.
ThrownCaught(f) == f

\* listener() throws inside the loop of dispatch: the loop is left, and the
\* error is on its way out of the store's dispatch.
Thrown(f) == [f EXCEPT !.pc = "throw", !.layer = N]

\* a component callback that throws (a selector or a render that fails)
ListenerThrows ==
  /\ Notifying
  /\ Walked[Top.idx] \in ComponentListeners
  /\ stack' = SetTop(Thrown([Called EXCEPT !.threw = TRUE]))
  /\ owed' = IF Thrown(Top).pc = "throw" THEN owed - 1 ELSE owed
  /\ UNCHANGED <<state, nextListeners, isDispatching, timers, ndisp, nedits,
                 folded, error, aux>>

\* the error passes a middleware: neither has a try/catch, so nothing after
\* next(action) runs in it
UnwindMiddleware ==
  /\ stack # <<>>
  /\ Top.pc = "throw" /\ Top.layer \in 1..N
  /\ stack' = SetTop([Top EXCEPT !.layer = @ - 1])
  /\ UNCHANGED <<state, nextListeners, isDispatching, timers, ndisp, nedits,
                 folded, owed, error, aux>>

\* The error leaves dispatch.  Inside a callback or a procedure that called
\* dispatch it goes on through that caller, which catches nothing either: the
\* pass the callback belongs to is left, the middleware the procedure was
\* called from is left.  With no dispatch further out it reaches the code
\* that called dispatch.
UnwindReturn ==
  /\ stack # <<>>
  /\ Top.pc = "throw" /\ Top.layer = 0
  /\ LET rest == SubSeq(stack, 1, Len(stack) - 1)
         outer == rest[Len(rest)]
     IN  IF rest = <<>>
         THEN /\ stack' = rest
              /\ error' = "SubscriberError"
              /\ owed' = owed
         ELSE /\ stack' = [rest EXCEPT ![Len(rest)] =
                             IF outer.pc = "notifying"
                             THEN [outer EXCEPT !.pc = "throw", !.layer = N]
                             ELSE [outer EXCEPT !.pc = "throw"]]
              /\ error' = error
              /\ owed' = IF outer.pc = "notifying" THEN owed - 1 ELSE owed
  /\ UNCHANGED <<state, nextListeners, isDispatching, timers, ndisp, nedits,
                 folded, aux>>

ThrowNext ==
  \/ \E a \in Commands : Dispatch(a)
  \/ TimerFire
  \/ \E k \in ComponentListeners : Subscribe(k)
  \/ \E k \in ComponentListeners : Unsubscribe(k)
  \/ LoggerIn
  \/ AsyncForward
  \/ AsyncInvoke
  \/ ReducerEnter
  \/ ReducerReturn
  \/ ListenerReads
  \/ \E a \in Commands : ListenerDispatches(a)
  \/ ListenerThrows
  \/ UnwindMiddleware
  \/ UnwindReturn
  \/ NotifyDone
  \/ MiddlewareOut
  \/ Return

ThrowSpec == Init /\ [][ThrowNext]_vars

(* --------------------------- the application -------------------------- *)
(* The application as index.js wires it: the store of store.js, the        *)
(* Counter component connected to it, callbacks that only read the state.  *)
(* Commands come from Counter's buttons and from any code that holds the   *)
(* store; each dispatch runs to completion before the next event.          *)
MaxAppDispatches == 4

AppCommands == PlainActions \cup {FunctionAction("incrementAsyncThunk")}

\* the dispatches a command will have caused once its timer has fired
AppCost(a) == IF a.tag = "function" THEN 2 ELSE 1

\* the history after the caller dispatched a with `pending` timers set
Recorded(h, a, pending) ==
  IF a.tag = "function"
  THEN [h EXCEPT !.thunks = @ + 1]
  ELSE [h EXCEPT !.others = @ + 1,
                 !.between = IF pending > 0 /\ a.val = "RESET" THEN @ + 1
                                                               ELSE @,
                 !.net = CASE a.val = "INCREMENT" -> @ + 1
                           [] a.val = "DECREMENT" -> @ - 1
                           [] a.val = "RESET" -> 0
                           [] OTHER -> @]

AppInit ==
  /\ state = InitialState
  /\ nextListeners = <<StoreListener, StoreListener + 1>>
  /\ isDispatching = FALSE
  /\ timers = 0
  /\ stack = <<>>
  /\ ndisp = 0
  /\ nedits = 0
  /\ folded = InitialState
  /\ owed = 0
  /\ error = "none"
  /\ hist = NoHistory
  /\ probe = NoProbe

\* a button of Counter, or other code holding the store, dispatches
AppDispatch(a) ==
  /\ stack = <<>>
  /\ ndisp + timers + AppCost(a) <= MaxAppDispatches
  /\ stack' = <<NewFrame(a, "caller")>>
  /\ ndisp' = ndisp + 1
  /\ hist' = Recorded(hist, a, timers)
  /\ UNCHANGED <<state, nextListeners, isDispatching, timers, nedits, folded,
                 owed, error, probe>>

\* a timer of incrementAsyncThunk fires: dispatch(increment())
AppTimerFire ==
  /\ stack = <<>>
  /\ timers > 0
  /\ timers' = timers - 1
  /\ stack' = <<ProcedureFrame(increment, "timer")>>
  /\ ndisp' = ndisp + 1
  /\ hist' = [hist EXCEPT !.fired = @ + 1, !.net = @ + 1]
  /\ UNCHANGED <<state, nextListeners, isDispatching, nedits, folded, owed,
                 error, probe>>

\* the synchronous steps of a dispatch in progress
AppRun ==
  \/ LoggerIn
  \/ AsyncForward
  \/ AsyncInvoke
  \/ ReducerEnter
  \/ ReducerReturn
  \/ ListenerReads
  \/ NotifyDone
  \/ MiddlewareOut
  \/ Return

AppNext ==
  \/ \E a \in AppCommands : AppDispatch(a)
  \/ AppTimerFire
  \/ AppRun

\* JavaScript runs a dispatch to completion, and a timer that was set fires.
AppSpec ==
  /\ AppInit
  /\ [][AppNext]_vars
  /\ WF_vars(AppRun)
  /\ WF_vars(AppTimerFire)

(* ------------------------- the reducer alone -------------------------- *)
(* rootReducer applied to a state and a command, and again to its result.  *)
MaxCount == 2

LastActions ==
  {"null", "INCREMENT", "DECREMENT", "RESET", "INCREMENT_ASYNC_START"}

ReducerStates ==
  [counter : [count : (0 - MaxCount)..MaxCount, loading : BOOLEAN,
              lastAction : LastActions],
   add : [count : 0..1]]

\* the types of counterActions.js, those addReducer names, and one that no
\* reducer names
ReducerCommands == {PlainAction(t) : t \in PlainTypes \cup {"ADD-FOUR", "NOOP"}}

ReducerInit ==
  /\ state = InitialState
  /\ nextListeners = <<StoreListener>>
  /\ isDispatching = FALSE
  /\ timers = 0
  /\ stack = <<>>
  /\ ndisp = 0
  /\ nedits = 0
  /\ folded = InitialState
  /\ owed = 0
  /\ error = "none"
  /\ hist = NoHistory
  /\ \E s \in ReducerStates, c \in ReducerCommands :
       probe = [k |-> "reducer", prev |-> s, cmd |-> c, out |-> s,
                done |-> FALSE]

\* out = rootReducer(prev, cmd)
Reduce ==
  /\ probe.k = "reducer" /\ ~probe.done
  /\ probe' = [probe EXCEPT !.out = rootReducer(probe.prev, probe.cmd),
                            !.done = TRUE]
  /\ UNCHANGED <<state, nextListeners, isDispatching, timers, stack, ndisp,
                 nedits, folded, owed, error, hist>>

\* the next command meets the state the reducer returned
ReduceAgain(c) ==
  /\ probe.k = "reducer" /\ probe.done
  /\ probe.out \in ReducerStates
  /\ probe' = [probe EXCEPT !.prev = probe.out, !.cmd = c, !.done = FALSE]
  /\ UNCHANGED <<state, nextListeners, isDispatching, timers, stack, ndisp,
                 nedits, folded, owed, error, hist>>

ReducerNext ==
  \/ Reduce
  \/ \E c \in ReducerCommands : ReduceAgain(c)

ReducerSpec == ReducerInit /\ [][ReducerNext]_vars

(* ------------------------------ class IO ------------------------------ *)
(* An IO holds a function, unsafePerformIO.  The functions are closures;    *)
(* here an IO is the description of its closure: a named operation given to *)
(* the constructor, the constant function of IO.of, or the closure that map *)
(* or chain builds around another IO.  Running one is calling the closure.  *)
(* The world is what the operations touch: a counter, and the trace of      *)
(* every operation and every function passed to map or chain that ran.      *)
MaxIODepth == 2
MaxRuns == 2

\* new IO(fn), fn one of: tick, which adds 1 to the counter and returns it
\* plus arg; fail, which throws; flaky, which adds 1 to the counter, throws
\* an error carrying the counter while the counter is at most arg, and
\* returns the counter afterwards
NewIO(op, arg) == [k |-> "new", op |-> op, arg |-> arg]

\* static of(value) { return new IO(() => value); }
Of(value) == [k |-> "of", v |-> value]

\* map(f) { return new IO(() => f(this.unsafePerformIO())); }
Map(this, f) == [k |-> "map", e |-> this, f |-> f]

\* chain(f) { return new IO(() => f(this.unsafePerformIO()).unsafePerformIO()); }
ChainIO(this, f) == [k |-> "chain", e |-> this, g |-> f]

\* memoize(io): new IO(() => { if (!computed) { cache = io.unsafePerformIO();
\* computed = true; } return cache; })
Memoize(io) == [k |-> "memo", e |-> io]

\* retry(times, io): new IO(() => { let lastError; for (...) ...; throw
\* lastError; })
Retry(times, io) == [k |-> "retry", n |-> times, e |-> io]

\* functions passed to map
MapFns == {"double", "inc"}

\* A map that returns its source's result as it is.
ApplyFIdentity(f, x) == x

ApplyF(f, x) == IF f = "double" THEN x * 2 ELSE x + 1

\* functions passed to chain: x => IO.of(x + 1), x => new IO(tick from x),
\* x => new IO(fail), and x => f(x).chain(g)
Prim(name) == [k |-> "prim", name |-> name]

Then(f, g) == [k |-> "then", f |-> f, g |-> g]

ChainFns == {Prim("ofInc"), Prim("tickPlus"), Prim("thenFail")}

RECURSIVE ApplyK(_, _)
ApplyK(g, x) ==
  CASE g.k = "then" -> ChainIO(ApplyK(g.f, x), g.g)
    [] g.name = "ofInc" -> Of(x + 1)
    [] g.name = "thenFail" -> NewIO("fail", x)
    [] OTHER -> NewIO("tick", x)

\* the functions that run when g is called: x => f(x).chain(g) calls f
RECURSIVE KCalls(_)
KCalls(g) == IF g.k = "then" THEN KCalls(g.f) ELSE <<g.name>>

\* memo is the cache of memoize: empty until computed is true
World0 == [count |-> 0, trace |-> <<>>, memo |-> <<>>]

Ran(w, names) == [w EXCEPT !.trace = @ \o names]

\* A chain whose closure calls this.unsafePerformIO() a second time.
SourceResultRerun(first, second) == second

\* chain's closure calls this.unsafePerformIO() once and uses its result
SourceResult(first, second) == first

\* Closures that go on after the call inside them threw.
RaisedNever(r) == FALSE

\* The closures of map, chain and memoize have no try/catch: when the call
\* inside them throws, they are left at once.
Raised(r) == ~r.ok

\* let lastError; with nothing assigned: what retry throws when no attempt
\* was made.  The errors of the operations are numbered from 0.
UndefinedError == 0 - 1

\* A loop that goes round once more than asked.
MoreAttemptsInclusive(i, times) == i <= times

\* for (let i = 0; i < times; i++)
MoreAttempts(i, times) == i < times

RECURSIVE Run(_, _)
RECURSIVE Attempts(_, _, _, _, _)

\* retry's loop from attempt i on: try { return io.unsafePerformIO(); }
\* catch (error) { lastError = error; } and, after the loop, throw lastError
Attempts(io, w, i, times, lastError) ==
  IF MoreAttempts(i, times)
  THEN LET r == Run(io, w)
       IN  IF r.ok THEN r ELSE Attempts(io, r.w, i + 1, times, r.val)
  ELSE [ok |-> FALSE, val |-> lastError, w |-> w]

\* unsafePerformIO(): the result (ok is FALSE when it threw, and val is then
\* the error) and the world it leaves
Run(io, w) ==
  CASE io.k = "new" ->
         IF io.op = "tick"
         THEN [ok |-> TRUE, val |-> io.arg + w.count + 1,
               w |-> Ran([w EXCEPT !.count = @ + 1], <<"tick">>)]
         ELSE IF io.op = "flaky"
         THEN [ok |-> w.count + 1 > io.arg, val |-> w.count + 1,
               w |-> Ran([w EXCEPT !.count = @ + 1], <<"flaky">>)]
         ELSE [ok |-> FALSE, val |-> 0, w |-> Ran(w, <<"fail">>)]
    [] io.k = "of" -> [ok |-> TRUE, val |-> io.v, w |-> Ran(w, <<"of">>)]
    [] io.k = "map" ->
         LET r == Run(io.e, w)
         IN  IF Raised(r)
             THEN r
             ELSE [ok |-> TRUE, val |-> ApplyF(io.f, r.val),
                   w |-> Ran(r.w, <<io.f>>)]
    [] io.k = "retry" -> Attempts(io.e, w, 0, io.n, UndefinedError)
    [] io.k = "memo" ->
         IF w.memo # <<>>
         THEN [ok |-> TRUE, val |-> w.memo[1], w |-> w]
         ELSE LET r == Run(io.e, w)
              IN  IF Raised(r)
                  THEN r
                  ELSE [r EXCEPT !.w.memo = <<r.val>>]
    [] OTHER ->
         LET r == SourceResult(Run(io.e, w), Run(io.e, Run(io.e, w).w))
         IN  IF Raised(r)
             THEN r
             ELSE Run(ApplyK(io.g, r.val), Ran(r.w, KCalls(io.g)))

\* A constructor that calls the function it is given.
ConstructedEager(io, w) == Run(io, w).w

\* constructor(fn) { this.unsafePerformIO = fn; }: the world after new IO(fn)
Constructed(io, w) == w

\* An IO that keeps the result of its first run.
PerformMemo(io, w, earlier) ==
  IF earlier # <<>> THEN [ok |-> earlier[1].ok, val |-> earlier[1].val, w |-> w]
                    ELSE Run(io, w)

\* io.unsafePerformIO() by a caller who has had the results `earlier`
Perform(io, w, earlier) == Run(io, w)

IOBases == {NewIO("tick", 0), NewIO("fail", 0), Of(1), Of(2), Of(42)}

\* memoize was called somewhere inside io
RECURSIVE HasMemo(_)
HasMemo(io) ==
  CASE io.k \in {"new", "of"} -> FALSE
    [] io.k = "memo" -> TRUE
    [] OTHER -> HasMemo(io.e)

IOInit ==
  /\ state = InitialState
  /\ nextListeners = <<StoreListener>>
  /\ isDispatching = FALSE
  /\ timers = 0
  /\ stack = <<>>
  /\ ndisp = 0
  /\ nedits = 0
  /\ folded = InitialState
  /\ owed = 0
  /\ error = "none"
  /\ hist = NoHistory
  /\ \E b \in IOBases :
       probe = [k |-> "io", io |-> b, depth |-> 0,
                w |-> Constructed(b, World0), runs |-> 0, vals |-> <<>>,
                assoc |-> <<>>]

IOUnchanged ==
  UNCHANGED <<state, nextListeners, isDispatching, timers, stack, ndisp,
              nedits, folded, owed, error, hist>>

\* io = io.map(f)
IOMap(f) ==
  /\ probe.k = "io" /\ probe.runs = 0 /\ probe.depth < MaxIODepth
  /\ LET next == Map(probe.io, f)
     IN  probe' = [probe EXCEPT !.io = next, !.depth = @ + 1,
                                !.w = Constructed(next, @), !.assoc = <<>>]
  /\ IOUnchanged

\* io = io.chain(g)
IOChain(g) ==
  /\ probe.k = "io" /\ probe.runs = 0 /\ probe.depth < MaxIODepth
  /\ LET next == ChainIO(probe.io, g)
     IN  probe' = [probe EXCEPT !.io = next, !.depth = @ + 1,
                                !.w = Constructed(next, @), !.assoc = <<>>]
  /\ IOUnchanged

\* io = memoize(io); one memoize per composition, so one cache
IOMemoize ==
  /\ probe.k = "io" /\ probe.runs = 0
  /\ ~HasMemo(probe.io)
  /\ LET next == Memoize(probe.io)
     IN  probe' = [probe EXCEPT !.io = next, !.w = Constructed(next, @),
                                !.assoc = <<>>]
  /\ IOUnchanged

\* io.unsafePerformIO()
IORun ==
  /\ probe.k = "io" /\ probe.runs < MaxRuns
  /\ LET r == Perform(probe.io, probe.w, probe.vals)
     IN  probe' = [probe EXCEPT !.w = r.w, !.runs = @ + 1,
                                !.vals = Append(@, [ok |-> r.ok, val |-> r.val]),
                                !.assoc = <<>>]
  /\ IOUnchanged

\* io.chain(f).chain(g) and io.chain(x => f(x).chain(g)), each built and run
\* in a world of its own
IOAssoc(f, g) ==
  /\ probe.k = "io" /\ probe.runs = 0
  /\ LET left == ChainIO(ChainIO(probe.io, f), g)
         right == ChainIO(probe.io, Then(f, g))
     IN  probe' = [probe EXCEPT !.assoc =
                     <<Run(left, Constructed(left, World0)),
                       Run(right, Constructed(right, World0))>>]
  /\ IOUnchanged

IONext ==
  \/ \E f \in MapFns : IOMap(f)
  \/ \E g \in ChainFns : IOChain(g)
  \/ IOMemoize
  \/ IORun
  \/ \E f \in ChainFns, g \in ChainFns : IOAssoc(f, g)

IOSpec == IOInit /\ [][IONext]_vars

(* ------------------------------- retry -------------------------------- *)
MaxRetries == 3

RetryBases ==
  {NewIO("tick", 0), NewIO("fail", 0), NewIO("flaky", 1), NewIO("flaky", 2),
   Of(42)}

RetryInit ==
  /\ state = InitialState
  /\ nextListeners = <<StoreListener>>
  /\ isDispatching = FALSE
  /\ timers = 0
  /\ stack = <<>>
  /\ ndisp = 0
  /\ nedits = 0
  /\ folded = InitialState
  /\ owed = 0
  /\ error = "none"
  /\ hist = NoHistory
  /\ \E b \in RetryBases :
       probe = [k |-> "io", io |-> b, depth |-> 0,
                w |-> Constructed(b, World0), runs |-> 0, vals |-> <<>>,
                assoc |-> <<>>]

\* io = retry(times, io)
IORetry(times) ==
  /\ probe.k = "io" /\ probe.runs = 0 /\ probe.depth < MaxIODepth
  /\ LET next == Retry(times, probe.io)
     IN  probe' = [probe EXCEPT !.io = next, !.depth = @ + 1,
                                !.w = Constructed(next, @), !.assoc = <<>>]
  /\ IOUnchanged

RetryNext ==
  \/ \E times \in 0..MaxRetries : IORetry(times)
  \/ \E f \in MapFns : IOMap(f)
  \/ IORun

RetrySpec == RetryInit /\ [][RetryNext]_vars

(* ------------------- two stores, one without logger ------------------- *)
(* A store as its callers see it: its state, the timers its procedures     *)
(* have set, the state each notification pass was made in, and what each   *)
(* dispatch returned.  A whole call of dispatch is one step; no listener   *)
(* writes.                                                                 *)
MaxPairDispatches == 3

\* applyMiddleware(asyncMiddleware)
MiddlewaresWithoutLogger ==
  SelectSeq(Middlewares, LAMBDA m : m # "loggerMiddleware")

NewStore ==
  [state |-> InitialState, timers |-> 0, passes |-> <<>>, results |-> <<>>]

\* throw new Error('Actions must be plain objects...')
NotPlain == [tag |-> "error", val |-> "Actions must be plain objects"]

\* The call of link i of the chain with command a on store st (past the last
\* link, the store's own dispatch): the store afterwards and what the call
\* returned.
RECURSIVE Through(_, _, _, _)
Through(chain, i, st, a) ==
  IF i > Len(chain)
  THEN IF ~IsPlainObject(a)
       THEN [st |-> st, result |-> NotPlain]
       ELSE LET next == currentReducer(st.state, a)
            IN  [st |-> [st EXCEPT
                           !.state = next,
                           !.passes = IF ShouldNotify(st.state, next)
                                      THEN Append(@, next) ELSE @],
                 result |-> a]
  ELSE IF chain[i] = "asyncMiddleware" /\ IsFunction(a)
  THEN CASE a.val = "incrementAsyncThunk" ->
              [st |-> [st EXCEPT !.timers = ScheduleTimer(@)],
               result |-> PassResult(chain[i], Undefined)]
         [] a.val = "asyncAction" ->
              [st |-> Through(chain, ProcedureDispatch(1, Len(chain) + 1), st,
                              SyncCommand).st,
               result |-> PassResult(chain[i], Undefined)]
         [] OTHER -> [st |-> st, result |-> PassResult(chain[i], Undefined)]
  ELSE LET r == Through(chain, i + 1, st, a)
       IN  [st |-> r.st, result |-> PassResult(chain[i], r.result)]

\* store.dispatch(a) by the user, the result kept
Dispatched(chain, st, a) ==
  LET r == Through(chain, 1, st, a)
  IN  [r.st EXCEPT !.results = Append(@, r.result)]

\* the timer's callback: dispatch(increment()), the result dropped
Fired(chain, st) ==
  IF st.timers = 0
  THEN st
  ELSE Through(chain, ProcedureDispatch(1, Len(chain) + 1),
               [st EXCEPT !.timers = @ - 1], increment).st

PairInit ==
  /\ state = InitialState
  /\ nextListeners = <<StoreListener>>
  /\ isDispatching = FALSE
  /\ timers = 0
  /\ stack = <<>>
  /\ ndisp = 0
  /\ nedits = 0
  /\ folded = InitialState
  /\ owed = 0
  /\ error = "none"
  /\ hist = NoHistory
  /\ probe = [k |-> "pair", n |-> 0, logged |-> NewStore, bare |-> NewStore]

\* the same command dispatched on both stores
PairDispatch(a) ==
  /\ probe.k = "pair"
  /\ probe.n + probe.logged.timers + AppCost(a) <= MaxPairDispatches
  /\ probe' = [probe EXCEPT
                 !.n = @ + 1,
                 !.logged = Dispatched(ComposeOrder(Middlewares), @, a),
                 !.bare = Dispatched(ComposeOrder(MiddlewaresWithoutLogger),
                                     @, a)]
  /\ IOUnchanged

\* a second of time passes for both stores
PairTimerFire ==
  /\ probe.k = "pair"
  /\ probe.logged.timers > 0 \/ probe.bare.timers > 0
  /\ probe' = [probe EXCEPT
                 !.n = @ + 1,
                 !.logged = Fired(ComposeOrder(Middlewares), @),
                 !.bare = Fired(ComposeOrder(MiddlewaresWithoutLogger), @)]
  /\ IOUnchanged

PairNext ==
  \/ \E a \in Commands : PairDispatch(a)
  \/ PairTimerFire

PairSpec == PairInit /\ [][PairNext]_vars

(* ---------------------- the application as wired ---------------------- *)
(* Only the four buttons of Counter dispatch; the button of the thunk is   *)
(* disabled while counter.loading is true.                                  *)
\* A Counter whose incrementAsync prop is the plain action creator.
WiredCommandsPlainAsync ==
  {PlainAction(t) : t \in {"INCREMENT", "DECREMENT", "RESET", "INCREMENT_ASYNC"}}

\* mapDispatchToProps = { increment, decrement, reset,
\*                        incrementAsync: incrementAsyncThunk }
WiredCommands ==
  {PlainAction(t) : t \in {"INCREMENT", "DECREMENT", "RESET"}}
    \cup {FunctionAction("incrementAsyncThunk")}

\* <button onClick={incrementAsync} disabled={loading}>
ButtonEnabled(a) == a.tag = "function" => ~state.counter.loading

Click(a) ==
  /\ ButtonEnabled(a)
  /\ AppDispatch(a)

WiredNext ==
  \/ \E a \in WiredCommands : Click(a)
  \/ AppTimerFire
  \/ AppRun

WiredSpec ==
  /\ AppInit
  /\ [][WiredNext]_vars
  /\ WF_vars(AppRun)
  /\ WF_vars(AppTimerFire)

(* ---------------------------- a component ----------------------------- *)
(* One component over the store of the application, written as             *)
(* provider-principles.js and the README write connect, useSelector and    *)
(* the hook Provider: the first render selects from store.getState(); the  *)
(* subscription is registered later, in componentDidMount or in the        *)
(* effect; its callback selects again and calls setState.                  *)
ComponentKinds == {"connect", "useSelector", "Provider"}

\* mapStateToProps of Counter.js; state => state.counter.count; the whole
\* state for the hook Provider
Select(kind, s) ==
  CASE kind = "connect" -> s.counter
    [] kind = "useSelector" -> s.counter.count
    [] OTHER -> s

ComponentListener == StoreListener + 1

ComponentInit ==
  /\ state = InitialState
  /\ nextListeners = <<StoreListener>>
  /\ isDispatching = FALSE
  /\ timers = 0
  /\ stack = <<>>
  /\ ndisp = 0
  /\ nedits = 0
  /\ folded = InitialState
  /\ owed = 0
  /\ error = "none"
  /\ hist = NoHistory
  /\ \E kind \in ComponentKinds :
       probe = [k |-> "component", kind |-> kind, phase |-> "unmounted",
                selected |-> Select(kind, InitialState), sets |-> 0,
                idle |-> 0, late |-> 0]

\* The first render.  A hook component: useState(() =>
\* selector(store.getState())), its effect runs later.  A class component:
\* the constructor selects, and React calls componentDidMount in the same
\* synchronous commit, so the subscription is registered at once.
Render ==
  /\ probe.k = "component" /\ probe.phase = "unmounted"
  /\ stack = <<>>
  /\ IF probe.kind = "connect"
     THEN /\ probe' = [probe EXCEPT !.phase = "mounted",
                                    !.selected = Select(probe.kind, getState)]
          /\ nextListeners' = Append(nextListeners, ComponentListener)
     ELSE /\ probe' = [probe EXCEPT !.phase = "rendered",
                                    !.selected = Select(probe.kind, getState)]
          /\ nextListeners' = nextListeners
  /\ UNCHANGED <<state, isDispatching, timers, stack, ndisp, nedits, folded,
                 owed, error, hist>>

\* the effect of a hook component: store.subscribe(callback)
Mount ==
  /\ probe.k = "component" /\ probe.phase = "rendered"
  /\ stack = <<>>
  /\ nextListeners' = Append(nextListeners, ComponentListener)
  /\ probe' = [probe EXCEPT !.phase = "mounted"]
  /\ UNCHANGED <<state, isDispatching, timers, stack, ndisp, nedits, folded,
                 owed, error, hist>>

\* The store's callbacks after the component unmounted.  A hook component:
\* React runs the cleanup the effect returned, unsubscribe.  The class of
\* connect keeps this.unsubscribe and has no componentWillUnmount, so
\* nothing calls it.
UnmountedListeners(kind, listeners) ==
  IF kind = "connect" THEN listeners
                      ELSE Remove(listeners, ComponentListener)

\* React unmounts the component; it is not rendered again
Unmount ==
  /\ probe.k = "component" /\ probe.phase = "mounted"
  /\ stack = <<>>
  /\ nextListeners' = UnmountedListeners(probe.kind, nextListeners)
  /\ probe' = [probe EXCEPT !.phase = "gone"]
  /\ UNCHANGED <<state, isDispatching, timers, stack, ndisp, nedits, folded,
                 owed, error, hist>>

\* the callback of store.js: console.log(store.getState())
StoreListenerReads ==
  /\ Notifying
  /\ Walked[Top.idx] = StoreListener
  /\ stack' = SetTop(Called)
  /\ UNCHANGED <<state, nextListeners, isDispatching, timers, ndisp, nedits,
                 folded, owed, error, aux>>

\* the component's callback: newState = selector(store.getState());
\* setState(newState).  sets counts the calls of setState, idle those whose
\* newState is the value selected before, late those made after the
\* component unmounted.
ComponentNotified ==
  /\ Notifying
  /\ Walked[Top.idx] = ComponentListener
  /\ stack' = SetTop(Called)
  /\ LET newState == Select(probe.kind, getState)
     IN  probe' = [probe EXCEPT
                     !.selected = newState,
                     !.sets = @ + 1,
                     !.idle = IF newState = probe.selected THEN @ + 1 ELSE @,
                     !.late = IF probe.phase = "gone" THEN @ + 1 ELSE @]
  /\ UNCHANGED <<state, nextListeners, isDispatching, timers, ndisp, nedits,
                 folded, owed, error, hist>>

\* the synchronous steps of a dispatch in progress
ComponentRun ==
  \/ LoggerIn
  \/ AsyncForward
  \/ AsyncInvoke
  \/ ReducerEnter
  \/ ReducerReturn
  \/ StoreListenerReads
  \/ ComponentNotified
  \/ NotifyDone
  \/ MiddlewareOut
  \/ Return

ComponentNext ==
  \/ Render
  \/ Mount
  \/ Unmount
  \/ \E a \in AppCommands : AppDispatch(a)
  \/ AppTimerFire
  \/ ComponentRun

\* A dispatch runs to completion, a timer that was set fires, React renders
\* the component and runs its componentDidMount or effect.  Nothing makes
\* the user click, and nothing makes React unmount the component.
ComponentSpec ==
  /\ ComponentInit
  /\ [][ComponentNext]_vars
  /\ WF_vars(ComponentRun)
  /\ WF_vars(AppTimerFire)
  /\ WF_vars(Render)
  /\ WF_vars(Mount)

(* ------------------------------ properties ---------------------------- *)
Frames == {stack[i] : i \in 1..Len(stack)}

IsPlainFrame(f) == f.action.tag = "object"

IsProcedureFrame(f) == f.action.tag = "function"

\* the frame's dispatch is about to return to its caller
Returning(f) == f.pc = "out" /\ f.layer = 0

\* the frame's notification pass is over
PassOver(f) ==
  \/ f.pc = "notifying" /\ f.idx > Len(f.listeners)
  \/ f.pc = "out" /\ f.listeners # <<>>

IsPrefix(p, q) == Len(p) <= Len(q) /\ p = SubSeq(q, 1, Len(p))

OnionLog ==
  <<"loggerMiddleware:in", "asyncMiddleware:in", "dispatch",
    "asyncMiddleware:out", "loggerMiddleware:out">>

\* C1: every dispatch of a plain command visits loggerMiddleware, then
\* asyncMiddleware, then the store's own dispatch, and returns through
\* asyncMiddleware and then loggerMiddleware: at every moment the visits made
\* so far are a prefix of that order, and at the return they are all of it.
C1_OnionOrdering ==
  \A f \in Frames : IsPlainFrame(f) =>
    /\ IsPrefix(f.log, OnionLog)
    /\ Returning(f) => f.log = OnionLog

C1_Witness ==
  \E f \in Frames : IsPlainFrame(f) /\ Returning(f) /\ f.log = OnionLog

\* C2: the store's state is rootReducer folded, from the initial state, over
\* the plain commands that reached the store's own dispatch, in order; while
\* the reducer runs for a command the fold is one application ahead.  No
\* middleware, procedure or listener writes the state.
C2_StateIsFold ==
  /\ isDispatching => folded = rootReducer(state, Top.action)
  /\ ~isDispatching => state = folded

C2_Witness ==
  /\ stack = <<>>
  /\ ndisp = 2
  /\ state.counter.count = 2
  /\ state = folded

\* C3: while the dispatch of a procedure is the running call, nothing it
\* does reaches the store's own dispatch: the state, the fold, the owed
\* passes and the listener list are unchanged, the reducer does not run and
\* nothing is thrown.  (What a dispatch made by the procedure does belongs
\* to that nested call.)
C3_ProcedureDeferral ==
  [][(stack # <<>> /\ IsProcedureFrame(Top)) =>
       /\ state' = state
       /\ folded' = folded
       /\ owed' = owed
       /\ nextListeners' = nextListeners
       /\ ~isDispatching'
       /\ error' = "none"
       /\ Top.layer <= N]_vars

C3_Witness ==
  \E f \in Frames :
    /\ f.action = FunctionAction("idleThunk")
    /\ Returning(f)
    /\ f.caller = "caller"
    /\ state = f.before
    /\ ndisp = 2
    /\ state # InitialState

ProcedureLog ==
  <<"loggerMiddleware:in", "asyncMiddleware:in", "asyncMiddleware:out",
    "loggerMiddleware:out">>

NotifyingFrames == {i \in 1..Len(stack) : stack[i].pc = "notifying"}

\* C7: every reducer execution is followed by one notification pass, whether
\* or not the state changed: the reducer executions not yet followed by a
\* completed pass are exactly the passes in progress, and a plain command's
\* dispatch returns only after its pass.
C7_NotifyOnEveryDispatch ==
  /\ owed = Cardinality(NotifyingFrames)
  /\ \A f \in Frames : (IsPlainFrame(f) /\ f.pc = "out") =>
       /\ f.called = f.listeners
       /\ Len(f.called) >= 1
       /\ f.called[1] = StoreListener

C7_Witness ==
  \E f \in Frames :
    /\ f.action = PlainAction("ADD-TWO")
    /\ Returning(f)
    /\ f.post = f.before
    /\ Len(f.called) >= 1
    /\ owed = 0

\* C8: a pass walks the listeners that were registered when it started; a
\* listener removed or added by a callback during the pass is still (or not
\* yet) called in this pass, and every pass starts from the store's list as
\* it is at that moment.
C8_SnapshotNotification ==
  \A f \in Frames :
    /\ (f.pc = "notifying" /\ f.idx = 1) => f.listeners = nextListeners
    /\ f.pc = "notifying" => IsPrefix(f.called, f.listeners)
    /\ PassOver(f) => f.called = f.listeners

C8_Witness ==
  \E f \in Frames :
    /\ PassOver(f)
    /\ f.called = <<StoreListener, 2, 3>>
    /\ nextListeners = <<StoreListener, 3>>
    /\ nedits = 1

Count(seq, x) == Cardinality({i \in 1..Len(seq) : seq[i] = x})

\* C12: dispatch returns what the innermost link that handled the command
\* returned: for a plain command the command itself, which the store's
\* dispatch returns and asyncMiddleware and loggerMiddleware pass on unchanged;
\* for a procedure what the procedure returned, which for the procedures of
\* the repository is undefined.
C12_ReturnsInnermost ==
  \A f \in Frames :
    f.pc = "out" =>
      IF f.action.tag = "object" THEN f.result = f.action
                                 ELSE f.result = Undefined

C12_Witness ==
  \E f \in Frames :
    /\ Returning(f)
    /\ f.action.tag = "object"
    /\ f.log = OnionLog
    /\ f.result = f.action

C14_TimerDispatchFullPass ==
  \A i \in 1..Len(stack) :
    stack[i].caller = "timer" =>
      /\ i = 1
      /\ stack[i].action = increment
      /\ IsPrefix(stack[i].log, OnionLog)
      /\ Returning(stack[i]) =>
           /\ stack[i].log = OnionLog
           /\ stack[i].listeners # <<>>
           /\ stack[i].called = stack[i].listeners
           /\ stack[i].post = rootReducer(stack[i].before, increment)

C14_Witness ==
  \E f \in Frames :
    /\ f.caller = "timer"
    /\ Returning(f)
    /\ f.log = OnionLog
    /\ Len(f.called) > 1
    /\ state.counter.count = 1

\* a frame whose pass a throwing callback has left
Aborted(f) ==
  /\ f.pc = "throw"
  /\ f.called # <<>>
  /\ IsPrefix(f.called, f.listeners)
  /\ f.called[Len(f.called)] \in ComponentListeners
  /\ f.post = rootReducer(f.before, f.action)
  /\ ~f.nested => state = f.post

\* what an error on its way out does in one step
ErrorPropagates ==
  (stack # <<>> /\ Top.pc = "throw") =>
    /\ state' = state
    /\ \A i \in 1..Len(stack') : stack'[i].called = stack[i].called
    /\ Top.layer = 0 =>
         IF Len(stack) = 1
         THEN stack' = <<>> /\ error' = "SubscriberError"
         ELSE Len(stack') = Len(stack) - 1 /\ stack'[Len(stack')].pc = "throw"

\* C11: when a callback throws, its pass is over: no callback after it in the
\* list the pass walks is called, the error goes out through the store's
\* dispatch and both middlewares to the caller of dispatch (through the
\* callback or procedure that made a nested dispatch, whose own pass or
\* middleware it leaves too), and the state stays what the reducer stored.
C11_ThrowAbortsPass ==
  /\ [](\A f \in Frames : f.threw => Aborted(f))
  /\ [][ErrorPropagates]_vars

C11_Witness ==
  \E f \in Frames :
    /\ f.threw
    /\ f.pc = "throw" /\ f.layer = 0
    /\ Len(f.called) < Len(f.listeners)
    /\ state = f.post
    /\ f.post # f.before

\* no dispatch in progress and no timer pending
Quiescent == stack = <<>> /\ timers = 0

\* C15: under fairness of the timer, the k-th dispatch of incrementAsyncThunk
\* is followed by the completed dispatch of a k-th INCREMENT from a timer;
\* there is never more than one such INCREMENT per thunk, and exactly one per
\* thunk once no dispatch is in progress and no timer is pending; when nothing
\* but thunks was dispatched, count then equals the number of thunks.
C15_AsyncIncrement ==
  /\ [](/\ hist.fired + timers <= hist.thunks
        /\ stack = <<>> => hist.fired + timers = hist.thunks
        /\ (Quiescent /\ hist.others = 0) =>
             state.counter.count = hist.thunks)
  /\ \A k \in 1..MaxAppDispatches :
       (hist.thunks >= k) ~> (hist.fired >= k /\ stack = <<>>)

C15_Witness ==
  /\ Quiescent
  /\ hist.thunks = 2
  /\ hist.others = 0
  /\ state.counter.count = 2

Thrice(s) ==
  counterReducer(counterReducer(counterReducer(s, increment), increment),
                 increment)

\* C16: once the dispatches made so far are complete, count is the number of
\* INCREMENTs minus the number of DECREMENTs applied since the last RESET
\* (since the start without one), whatever other commands came in between;
\* three INCREMENTs from the initial state give 3, and a command of a type
\* the reducer does not know leaves that state as it is.
C16_CounterArithmetic ==
  /\ stack = <<>> => state.counter.count = hist.net
  /\ Thrice(counterInitialState).count = 3
  /\ counterReducer(Thrice(counterInitialState), PlainAction("NOOP"))
       = Thrice(counterInitialState)

C16_Witness ==
  /\ stack = <<>>
  /\ ndisp = 4
  /\ hist.others = 4
  /\ state.counter.count = 3
  /\ state.counter.lastAction = "INCREMENT"
  /\ ~state.counter.loading

KnownTypes == {"INCREMENT", "DECREMENT", "RESET", "INCREMENT_ASYNC"}

\* C17: rootReducer returns a state for every state and every command, and
\* for a command whose type is none of INCREMENT, DECREMENT, RESET and
\* INCREMENT_ASYNC that state has the counter slice and the add slice it was
\* given.
C17_TotalAndIdentity ==
  (probe.k = "reducer" /\ probe.done) =>
    /\ DOMAIN probe.out = {"counter", "add"}
    /\ DOMAIN probe.out.counter = {"count", "loading", "lastAction"}
    /\ DOMAIN probe.out.add = {"count"}
    /\ probe.cmd.val \notin KnownTypes =>
         /\ probe.out.counter = probe.prev.counter
         /\ probe.out.add = probe.prev.add

C17_Witness ==
  /\ probe.k = "reducer" /\ probe.done
  /\ probe.cmd = PlainAction("ADD-TWO")
  /\ probe.prev.counter.count = 1
  /\ probe.out = probe.prev

\* C18: as long as unsafePerformIO has not been called, nothing has run:
\* whatever IO was constructed and however it was composed with map and
\* chain, the counter of the wrapped operation is 0 and no operation and no
\* function passed to map or chain has been executed.
C18_Laziness ==
  (probe.k = "io" /\ probe.runs = 0) =>
    probe.w.count = 0 /\ probe.w.trace = <<>>

C18_Witness ==
  /\ probe.k = "io" /\ probe.runs = 0
  /\ probe.io.k = "chain"
  /\ probe.io.e.k = "map"
  /\ probe.io.e.e = NewIO("tick", 0)
  /\ probe.w.count = 0

\* C19: io.chain(f).chain(g) and io.chain(x => f(x).chain(g)), run from the
\* same world, return the same result (or both throw) and leave the same
\* counter and the same trace of executed operations and functions.
C19_Associativity ==
  (probe.k = "io" /\ probe.assoc # <<>>) => probe.assoc[1] = probe.assoc[2]

C19_Witness ==
  /\ probe.k = "io" /\ probe.assoc # <<>>
  /\ probe.io.k = "chain"
  /\ probe.assoc[1].ok
  /\ probe.assoc[1].w.count >= 2
  /\ Len(probe.assoc[1].w.trace) >= 7

RECURSIVE Repeat(_, _)
Repeat(seq, n) == IF n = 0 THEN <<>> ELSE seq \o Repeat(seq, n - 1)

\* io is e.map(f).chain(g) with e an operation that does not throw
IsMapThenChain(io) ==
  /\ io.k = "chain"
  /\ io.g.k = "prim"
  /\ io.e.k = "map"
  /\ io.e.e \in {NewIO("tick", 0), Of(1), Of(2)}

OperationOf(e) == IF e.k = "of" THEN "of" ELSE "tick"

EffectOf(g) ==
  CASE g.name = "ofInc" -> "of"
    [] g.name = "thenFail" -> "fail"
    [] OTHER -> "tick"

\* C20: k runs of the IO around tick execute tick k times, each a fresh
\* execution; k runs of e.map(f).chain(g) execute, k times over, e's
\* operation, then f, then g, then the operation of the IO that g returned,
\* and nothing else; every run yields a result.
C20_NoMemoization ==
  probe.k = "io" =>
    /\ Len(probe.vals) = probe.runs
    /\ probe.io = NewIO("tick", 0) =>
         /\ probe.w.count = probe.runs
         /\ probe.w.trace = Repeat(<<"tick">>, probe.runs)
         /\ \A i \in 1..probe.runs : probe.vals[i] = [ok |-> TRUE, val |-> i]
    /\ IsMapThenChain(probe.io) =>
         probe.w.trace =
           Repeat(<<OperationOf(probe.io.e.e), probe.io.e.f, probe.io.g.name,
                    EffectOf(probe.io.g)>>, probe.runs)

C20_Witness ==
  /\ probe.k = "io" /\ probe.runs = 2
  /\ IsMapThenChain(probe.io)
  /\ probe.io.e.e = NewIO("tick", 0)
  /\ probe.io.g = Prim("tickPlus")
  /\ probe.w.count = 4

\* C21 as claimed: however often memoize(io) is run, what has been executed
\* is what one run of io executes, and every run returns what the first run
\* returned.
C21_MemoizeAtMostOnce ==
  (probe.k = "io" /\ probe.io.k = "memo" /\ probe.runs >= 1) =>
    /\ probe.w.trace = Run(probe.io.e, World0).w.trace
    /\ \A i \in 1..probe.runs : probe.vals[i] = probe.vals[1]

\* What does hold of memoize: when the first run returned, what has been
\* executed is what that one run executed, and every run returns its value.
MemoizeOnceWhenReturned ==
  (probe.k = "io" /\ probe.io.k = "memo" /\ probe.runs >= 1
     /\ probe.vals[1].ok) =>
    /\ probe.w.trace = Run(probe.io.e, World0).w.trace
    /\ \A i \in 1..probe.runs : probe.vals[i] = probe.vals[1]

\* the value of the i-th run, when it returned one
Returned(i, v) == probe.vals[i] = [ok |-> TRUE, val |-> v]

\* x => x * 2 and x => x + 1, written out
Expect(f, v) == IF f = "double" THEN v + v ELSE v + 1

\* what running g(v) returns when tick has run n times before:
\* x => IO.of(x + 1) gives v + 1, x => new IO(tick from x) gives v + n + 1
ExpectK(g, v, n) == IF g.name = "ofInc" THEN v + 1 ELSE v + n + 1

\* C22: every run of IO.of(v) returns v; of IO.of(v).map(f), f(v); of
\* IO.of(v).chain(g), what running g(v) returns; of IO.of(v).chain(g).map(f),
\* f of what running g(v) returns.
C22_Results ==
  probe.k = "io" =>
    \A i \in 1..probe.runs :
      LET io == probe.io
      IN  /\ io.k = "of" => Returned(i, io.v)
          /\ (io.k = "map" /\ io.e.k = "of") =>
               Returned(i, Expect(io.f, io.e.v))
          /\ (io.k = "chain" /\ io.e.k = "of" /\ io.g.name # "thenFail") =>
               Returned(i, ExpectK(io.g, io.e.v, i - 1))
          /\ (io.k = "map" /\ io.e.k = "chain" /\ io.e.e.k = "of"
                /\ io.e.g.name # "thenFail") =>
               Returned(i, Expect(io.f, ExpectK(io.e.g, io.e.e.v, i - 1)))

C22_Witness ==
  /\ probe.k = "io" /\ probe.runs = 1
  /\ probe.io = Map(ChainIO(Of(42), Prim("ofInc")), "double")
  /\ probe.vals[1].val = 86

\* the runs so far that threw
Failed == {i \in 1..probe.runs : ~probe.vals[i].ok}

\* C23: an IO around an operation that throws raises nothing while it is
\* constructed, mapped, chained or memoized; every execution of the throwing
\* operation throws to the caller of unsafePerformIO, and is the last thing
\* executed in its run: no function or IO later in the composition runs;
\* the store is untouched.
C23_ErrorsAtRun ==
  probe.k = "io" =>
    /\ probe.runs = 0 => (probe.vals = <<>> /\ probe.w.trace = <<>>)
    /\ Count(probe.w.trace, "fail") = Cardinality(Failed)
    /\ probe.runs = 1 =>
         \A j \in 1..Len(probe.w.trace) :
           probe.w.trace[j] = "fail" => j = Len(probe.w.trace)
    /\ state = InitialState /\ stack = <<>>

C23_Witness ==
  /\ probe.k = "io" /\ probe.runs = 1
  /\ probe.io = Map(ChainIO(NewIO("tick", 0), Prim("thenFail")), "double")
  /\ ~probe.vals[1].ok
  /\ probe.w.trace = <<"tick", "thenFail", "fail">>

\* C24 as claimed: the component's callback calls setState only when the
\* value it selects differs from the value selected before.
C24_UpdateOnlyOnChange ==
  probe.k = "component" => probe.idle = 0

\* the value a hook component holds is not what its selector gives now
Stale ==
  /\ probe.k = "component" /\ probe.phase \in {"rendered", "mounted"}
  /\ probe.kind \in {"useSelector", "Provider"}
  /\ probe.selected # Select(probe.kind, state)

\* C25 as claimed: whenever the store has changed under a rendered hook
\* component, also between its first render and the registration of its
\* subscription, the value the component holds becomes the selected value of
\* the store's state again.
C25_ChangesReachComponent == Stale ~> ~Stale

\* C27: addReducer returns the state it was given for every command object,
\* those of type ADD-TWO and ADD-FOUR included, and in every state the store
\* reaches state.add.count is 0.
C27_AddNeverChanges ==
  /\ state.add.count = 0
  /\ \A s \in [count : 0..MaxCount], c \in ReducerCommands :
       addReducer(s, c) = s

C27_Witness ==
  \E f \in Frames :
    /\ f.action = PlainAction("ADD-TWO")
    /\ Returning(f)
    /\ f.post = state
    /\ state.add.count = 0

\* C28: loading is false before the first dispatch; a step never takes it
\* from true to false; the only step that takes it from false to true is the
\* reducer's step for an INCREMENT_ASYNC command.
C28_LoadingMonotone ==
  /\ [](ndisp = 0 => ~state.counter.loading)
  /\ [][/\ state.counter.loading => state'.counter.loading
        /\ (~state.counter.loading /\ state'.counter.loading) =>
             (stack # <<>> /\ Top.action.val = "INCREMENT_ASYNC")]_vars

C28_Witness ==
  /\ stack = <<>>
  /\ state.counter.loading
  /\ state.counter.lastAction = "INCREMENT"
  /\ hist.fired = 1
  /\ state.counter.count = 0

\* C29: with only Counter's buttons dispatching, loading is false in every
\* state, so the button of the thunk is always enabled, whatever number of
\* timers is pending.
C29_LoadingNeverSet ==
  /\ ~state.counter.loading
  /\ ButtonEnabled(FunctionAction("incrementAsyncThunk"))

C29_Witness ==
  /\ timers = 2
  /\ stack = <<>>
  /\ hist.thunks = 2
  /\ ~state.counter.loading

\* C30: a timer, once set, goes away only by firing; the INCREMENT it
\* dispatches adds exactly 1 to the count the store holds when the reducer
\* runs for it, whatever was dispatched since the thunk; between dispatches
\* the timers fired and pending are as many as the thunks dispatched.
C30_PendingIncrements ==
  /\ [](stack = <<>> => hist.fired + timers = hist.thunks)
  /\ [][/\ timers' < timers =>
             /\ timers' = timers - 1
             /\ stack' # <<>>
             /\ stack'[1].caller = "timer"
             /\ stack'[1].action.val = "INCREMENT"
        /\ (stack # <<>> /\ Top.caller = "timer" /\ Top.pc = "reducing") =>
             state'.counter.count = state.counter.count + 1]_vars

C30_Witness ==
  /\ Quiescent
  /\ hist.thunks = 1 /\ hist.fired = 1
  /\ hist.between = 1
  /\ hist.others = 2
  /\ state.counter.count = 1
  /\ state.counter.lastAction = "INCREMENT"

\* what one step does to the counter slice
CounterFrame ==
  IF stack # <<>> /\ Top.pc = "reducing"
  THEN LET t == Top.action.val
           c == state.counter
           d == state'.counter
       IN  /\ Top.action.tag = "object"
           /\ t \in {"INCREMENT", "DECREMENT", "RESET"} =>
                d.loading = c.loading /\ d.lastAction = t
           /\ t = "INCREMENT_ASYNC" =>
                d.count = c.count /\ d.lastAction = "INCREMENT_ASYNC_START"
           /\ t \notin KnownTypes => d = c
  ELSE state'.counter = state.counter

\* C31: lastAction is null before the first dispatch; the reducer's step for
\* INCREMENT, DECREMENT or RESET leaves loading as it is and sets lastAction
\* to the command's type; its step for INCREMENT_ASYNC leaves count as it is
\* and sets lastAction to INCREMENT_ASYNC_START; its step for any other
\* command, and every other step, those of a procedure's dispatch included,
\* leave the counter slice as it is.
C31_CounterFrame ==
  /\ [](ndisp = 0 => state.counter = counterInitialState)
  /\ [][CounterFrame]_vars

C31_Witness ==
  \E f \in Frames :
    /\ f.action = PlainAction("ADD-TWO")
    /\ Returning(f)
    /\ f.before.counter.lastAction = "INCREMENT_ASYNC_START"
    /\ f.before.counter.count = 1
    /\ state.counter = f.before.counter

\* the attempts of b that throw before one returns, counted from a new world
FailsBefore(b) ==
  CASE b.k = "of" -> 0
    [] b.op = "tick" -> 0
    [] b.op = "flaky" -> b.arg
    [] OTHER -> MaxRetries + 1

\* what the first attempt of b that returns, the one after `fails`, returns
FirstValue(b, fails) ==
  CASE b.k = "of" -> b.v
    [] b.op = "tick" -> 1
    [] OTHER -> fails + 1

\* the error of the n-th attempt of b, n > 0
ErrorOf(b, n) == IF b.op = "flaky" THEN n ELSE 0

\* C33: building retry(times, io) runs nothing.  Its first run, io an
\* operation that throws on its first FailsBefore attempts, executes io
\* min(times, FailsBefore + 1) times: when times exceeds FailsBefore it
\* returns the value of the first attempt that returns, and otherwise it
\* throws the error of attempt `times`, the undefined error when times is 0.
\* No number of runs executes io more than times per run.
C33_Retry ==
  probe.k = "io" =>
    /\ probe.runs = 0 => probe.w = World0
    /\ probe.io.k = "retry" /\ probe.io.e \in RetryBases =>
         LET times == probe.io.n
             b == probe.io.e
             executed == Len(probe.w.trace)
         IN  /\ executed <= times * probe.runs
             /\ probe.runs = 1 =>
                  IF times > FailsBefore(b)
                  THEN /\ executed = FailsBefore(b) + 1
                       /\ probe.vals[1] =
                            [ok |-> TRUE, val |-> FirstValue(b, FailsBefore(b))]
                  ELSE /\ executed = times
                       /\ probe.vals[1] =
                            [ok |-> FALSE,
                             val |-> IF times = 0 THEN UndefinedError
                                                  ELSE ErrorOf(b, times)]

C33_Witness ==
  /\ probe.k = "io"
  /\ probe.io = Retry(MaxRetries, NewIO("flaky", 2))
  /\ probe.runs = 1
  /\ probe.vals = <<[ok |-> TRUE, val |-> 3]>>
  /\ probe.w.trace = <<"flaky", "flaky", "flaky">>

C32_LoggerTransparent ==
  probe.k = "pair" => probe.logged = probe.bare

C32_Witness ==
  /\ probe.k = "pair"
  /\ probe.logged.results = <<Undefined, PlainAction("DECREMENT")>>
  /\ probe.bare.results = <<Undefined, PlainAction("DECREMENT")>>
  /\ probe.logged.timers = 0
  /\ Len(probe.logged.passes) = 2
  /\ probe.logged.state.counter.lastAction = "INCREMENT"

=============================================================================
